---- MODULE Spec2Model ----
(***************************************************************************)
(* Model of streamlit_app.py: the session mapping kept in                  *)
(* st.session_state, its persistence in generated_videos/sessions.json     *)
(* (with the legacy veo3_sessions.json), the artifact files, and the       *)
(* video generation job with its polling loop.                             *)
(*                                                                         *)
(* One Streamlit script run is: MainStart (the load at the top of main),   *)
(* then one widget handler.  The generation handler is split at its remote *)
(* calls: JobSubmit, JobPoll (the whole while loop), JobFinalize,          *)
(* JobReturn.  The remote service, the file system's failures and uuid4    *)
(* are inputs, drawn with \E.                                              *)
(***************************************************************************)
EXTENDS Integers, Sequences, FiniteSets, TLC

\* ------------------------------------------------------------------ bounds

\* Generation jobs started in one behaviour.
MaxJobs == 1

\* File system failures (a write of sessions.json that fails, an os.remove
\* that raises) in one behaviour.
MaxFaults == 1

\* ------------------------------------------------- constants of the program

\* max_polls = 60
max_polls == 60

\* options=[1, 2, 4] of the "Number of Variations" slider
NumVariationOptions == {1, 2, 4}

\* str(uuid.uuid4())[:8] of create_new_session: a random value; nothing in
\* the code makes it differ from the keys in use
SessionIds == {"s1", "s2"}

\* str(uuid.uuid4())[:8] of the job's variation i: taken as distinct for every
\* variation of every job
NewVideoId(job_no, i) == "v" \o ToString(job_no) \o "_" \o ToString(i)

\* datetime.now() in its formats; the clock is one abstract instant
Now == "t0"

\* the form's values; the prompt must be non-empty to reach the job
Prompt == "p"
AspectLabel == "16:9 (Widescreen)"
ModelLabel == "Veo 3 Fast"

ASPECT_RATIOS == [l \in {AspectLabel} |-> "16:9"]

MODEL_VERSIONS == [l \in {ModelLabel} |-> "veo-3.0-fast-generate-preview"]

\* ----------------------------------------------------------- Python values

\* Python's None (no str of the program has this value)
None == "None"

\* the empty str
EmptyStr == ""

\* {} : a dict is a function from its keys
EmptyDict == [k \in {} |-> None]

DictPut(d, k, v) == [x \in (DOMAIN d) \cup {k} |-> IF x = k THEN v ELSE d[x]]

DictDel(d, k) == [x \in (DOMAIN d) \ {k} |-> d[x]]

\* str(generated_videos_dir / f"veo3_{video_id}_{now}.mp4")
VideoPath(video_id, now) ==
    "generated_videos/veo3_" \o video_id \o "_" \o now \o ".mp4"

\* ------------------------------------------------------------- file contents

\* no such file
Absent == [tag |-> "absent"]

\* a file json.load cannot parse: empty, truncated or otherwise malformed
Corrupt == [tag |-> "corrupt"]

\* JSON null (no JSON string of the program has this value)
JNull == "null"

\* a complete JSON document
JsonDoc(obj) == [tag |-> "json", obj |-> obj]

IsDoc(content) == content.tag = "json"

\* json.dump of one value of a video record's local_path (None -> null)
JsonValue(x) == IF x = None THEN JNull ELSE x

\* json.load of that value (null -> None)
PyValue(j) == IF j = JNull THEN None ELSE j

JsonVideo(v) == [v EXCEPT !.local_path = JsonValue(@)]

PyVideo(j) == [j EXCEPT !.local_path = PyValue(@)]

JsonGeneration(g) ==
    [g EXCEPT !.videos = [k \in 1..Len(g.videos) |-> JsonVideo(g.videos[k])]]

PyGeneration(j) ==
    [j EXCEPT !.videos = [k \in 1..Len(j.videos) |-> PyVideo(j.videos[k])]]

JsonSession(s) ==
    [s EXCEPT !.generations =
        [k \in 1..Len(s.generations) |-> JsonGeneration(s.generations[k])]]

PySession(j) ==
    [j EXCEPT !.generations =
        [k \in 1..Len(j.generations) |-> PyGeneration(j.generations[k])]]

\* json.dump(mapping, f, indent=2): the document written
JsonDump(mapping) == JsonDoc([sid \in DOMAIN mapping |-> JsonSession(mapping[sid])])

\* json.load(f) of a complete document
JsonLoad(content) == [sid \in DOMAIN content.obj |-> PySession(content.obj[sid])]

\* a veo3_sessions.json left by an earlier version: one session, no generations
LegacyDoc ==
    JsonDoc([sid \in {"s1"} |->
        [id |-> "s1", created_at |-> Now, name |-> "Session " \o Now,
         generations |-> << >>]])

\* outcomes of open(file, "w") followed by json.dump
WriteOutcomes == {"ok", "open_fails", "write_fails"}

\* the file after open(file, "w") + json.dump(mapping) with the given outcome
WriteFile(old, mapping, io) ==
    CASE io = "ok" -> JsonDump(mapping)
      [] io = "open_fails" -> old
      [] OTHER -> Corrupt

\* ------------------------------------------------------ session management

\* create_new_session: the mapping after inserting the new, empty session
create_new_session(mapping, session_id) ==
    DictPut(mapping, session_id,
        [id |-> session_id, created_at |-> Now, name |-> "Session " \o Now,
         generations |-> << >>])

\* the videos of a session in the order delete_session visits them
RECURSIVE SessionVideos(_, _)
SessionVideos(generations, k) ==
    IF k > Len(generations) THEN << >>
    ELSE generations[k].videos \o SessionVideos(generations, k + 1)

\* os.path.exists(path): raises TypeError for None
PathExistsRaises(path) == path = None

\* delete_session's loop over the videos from position k on.  failing: the
\* paths for which os.remove raises (the exception is passed over); met: the
\* os.remove calls that raised so far.  Returns the files left, whether
\* os.path.exists raised, and the os.remove calls that raised.
RECURSIVE RemoveVideoFiles(_, _, _, _, _)
RemoveVideoFiles(videos, k, fs, failing, met) ==
    IF k > Len(videos) THEN [files |-> fs, raised |-> FALSE, remove_failed |-> met]
    ELSE LET video == videos[k] IN
         IF "local_path" \notin DOMAIN video
         THEN RemoveVideoFiles(videos, k + 1, fs, failing, met)
         ELSE IF PathExistsRaises(video.local_path)
         THEN [files |-> fs, raised |-> TRUE, remove_failed |-> met]
         ELSE IF video.local_path \notin fs
         THEN RemoveVideoFiles(videos, k + 1, fs, failing, met)
         ELSE IF video.local_path \in failing
         THEN RemoveVideoFiles(videos, k + 1, fs, failing, met + 1)
         ELSE RemoveVideoFiles(videos, k + 1, fs \ {video.local_path}, failing, met)

\* delete_session without its membership test: del of a missing key raises
delete_session_NoGuard(mapping, current, fs, session_id, failing) ==
    IF session_id \in DOMAIN mapping
    THEN LET r == RemoveVideoFiles(
                     SessionVideos(mapping[session_id].generations, 1), 1, fs,
                     failing, 0)
         IN IF r.raised
            THEN [sessions |-> mapping, current |-> current, files |-> r.files,
                  raised |-> "TypeError", remove_failed |-> r.remove_failed]
            ELSE [sessions |-> DictDel(mapping, session_id),
                  current |-> IF current = session_id THEN None ELSE current,
                  files |-> r.files, raised |-> "none",
                  remove_failed |-> r.remove_failed]
    ELSE [sessions |-> mapping, current |-> current, files |-> fs,
          raised |-> "KeyError", remove_failed |-> 0]

\* delete_session(session_id) on (mapping, current, fs)
delete_session(mapping, current, fs, session_id, failing) ==
    IF session_id \in DOMAIN mapping
    THEN LET r == RemoveVideoFiles(
                     SessionVideos(mapping[session_id].generations, 1), 1, fs,
                     failing, 0)
         IN IF r.raised
            THEN [sessions |-> mapping, current |-> current, files |-> r.files,
                  raised |-> "TypeError", remove_failed |-> r.remove_failed]
            ELSE [sessions |-> DictDel(mapping, session_id),
                  current |-> IF current = session_id THEN None ELSE current,
                  files |-> r.files, raised |-> "none",
                  remove_failed |-> r.remove_failed]
    ELSE [sessions |-> mapping, current |-> current, files |-> fs, raised |-> "none",
          remove_failed |-> 0]

\* ------------------------------------------------------------- persistence

\* VideoCopy writing a missing path as the empty str: video.get("local_path") or ""
VideoCopy_EmptyForNone(video) ==
    [id |-> video.id, prompt |-> video.prompt, aspect_ratio |-> video.aspect_ratio,
     model_version |-> video.model_version, created_at |-> video.created_at,
     local_path |-> IF "local_path" \in DOMAIN video /\ video.local_path # None
                    THEN video.local_path ELSE EmptyStr,
     status |-> video.status]

\* video_copy of save_sessions_to_file: the declared fields, local_path by
\* video.get("local_path", "")
VideoCopy(video) ==
    [id |-> video.id, prompt |-> video.prompt, aspect_ratio |-> video.aspect_ratio,
     model_version |-> video.model_version, created_at |-> video.created_at,
     local_path |-> IF "local_path" \in DOMAIN video THEN video.local_path ELSE EmptyStr,
     status |-> video.status]

\* gen_copy of save_sessions_to_file
GenCopy(gen) ==
    [timestamp |-> gen.timestamp, prompt |-> gen.prompt, settings |-> gen.settings,
     videos |-> [k \in 1..Len(gen.videos) |-> VideoCopy(gen.videos[k])]]

\* sessions_copy of save_sessions_to_file
SessionsCopy(mapping) ==
    [sid \in DOMAIN mapping |->
        [id |-> mapping[sid].id, created_at |-> mapping[sid].created_at,
         name |-> mapping[sid].name,
         generations |-> [k \in 1..Len(mapping[sid].generations) |->
                             GenCopy(mapping[sid].generations[k])]]]

\* save_sessions_to_file: the canonical file afterwards and whether st.error
\* was called; nothing is raised to the caller
save_sessions_to_file(mapping, canon, io) ==
    [canonical |-> WriteFile(canon, SessionsCopy(mapping), io), error |-> io # "ok"]

\* load_sessions_from_file without the rewrite of the canonical file
load_sessions_from_file_NoRewrite(mapping, canon, leg, io) ==
    IF canon # Absent
    THEN IF IsDoc(canon)
         THEN [sessions |-> JsonLoad(canon), canonical |-> canon,
               source |-> "canonical", stage |-> "none", warned |-> FALSE, raised |-> FALSE]
         ELSE [sessions |-> mapping, canonical |-> canon,
               source |-> "canonical", stage |-> "read", warned |-> TRUE, raised |-> FALSE]
    ELSE IF leg # Absent
    THEN IF IsDoc(leg)
         THEN [sessions |-> JsonLoad(leg), canonical |-> canon,
               source |-> "legacy", stage |-> "none", warned |-> FALSE, raised |-> FALSE]
         ELSE [sessions |-> mapping, canonical |-> canon,
               source |-> "legacy", stage |-> "read", warned |-> TRUE, raised |-> FALSE]
    ELSE [sessions |-> mapping, canonical |-> canon,
          source |-> "nofile", stage |-> "none", warned |-> FALSE, raised |-> FALSE]

\* load_sessions_from_file without its try block: a failure is raised to the
\* caller and nothing is reported
load_sessions_from_file_NoTry(mapping, canon, leg, io) ==
    IF canon # Absent
    THEN IF IsDoc(canon)
         THEN [sessions |-> JsonLoad(canon), canonical |-> canon,
               source |-> "canonical", stage |-> "none", warned |-> FALSE, raised |-> FALSE]
         ELSE [sessions |-> mapping, canonical |-> canon,
               source |-> "canonical", stage |-> "read", warned |-> FALSE, raised |-> TRUE]
    ELSE IF leg # Absent
    THEN IF IsDoc(leg)
         THEN [sessions |-> JsonLoad(leg),
               canonical |-> WriteFile(canon, JsonLoad(leg), io),
               source |-> "legacy", stage |-> IF io = "ok" THEN "none" ELSE "write",
               warned |-> FALSE, raised |-> io # "ok"]
         ELSE [sessions |-> mapping, canonical |-> canon,
               source |-> "legacy", stage |-> "read", warned |-> FALSE, raised |-> TRUE]
    ELSE [sessions |-> mapping, canonical |-> canon,
          source |-> "nofile", stage |-> "none", warned |-> FALSE, raised |-> FALSE]

\* load_sessions_from_file on (mapping, canon, leg); io is the outcome of the
\* migration's write.  source: the file read; stage: where the try block
\* failed ("none": it did not); warned: st.warning was called
load_sessions_from_file(mapping, canon, leg, io) ==
    IF canon # Absent
    THEN IF IsDoc(canon)
         THEN [sessions |-> JsonLoad(canon), canonical |-> canon,
               source |-> "canonical", stage |-> "none", warned |-> FALSE, raised |-> FALSE]
         ELSE [sessions |-> mapping, canonical |-> canon,
               source |-> "canonical", stage |-> "read", warned |-> TRUE, raised |-> FALSE]
    ELSE IF leg # Absent
    THEN IF IsDoc(leg)
         THEN [sessions |-> JsonLoad(leg),
               canonical |-> WriteFile(canon, JsonLoad(leg), io),
               source |-> "legacy", stage |-> IF io = "ok" THEN "none" ELSE "write",
               warned |-> io # "ok", raised |-> FALSE]
         ELSE [sessions |-> mapping, canonical |-> canon,
               source |-> "legacy", stage |-> "read", warned |-> TRUE, raised |-> FALSE]
    ELSE [sessions |-> mapping, canonical |-> canon,
          source |-> "nofile", stage |-> "none", warned |-> FALSE, raised |-> FALSE]

\* ------------------------------------------------------------------- state

VARIABLES
    sessions,             \* st.session_state.sessions
    current_session_id,   \* st.session_state.current_session_id
    client,               \* st.session_state.client (None or "client")
    api_key_configured,   \* st.session_state.api_key_configured
    files,                \* the artifact files that exist in generated_videos/
    canonical,            \* content of generated_videos/sessions.json
    legacy,               \* content of veo3_sessions.json
    pc,                   \* position of the script run
    job,                  \* the locals of generate_videos_with_veo3
    jobs,                 \* generation jobs started so far
    faults,               \* file system failures so far
    migrated,             \* history: a migration has written the canonical file
    saved,                \* history: the mapping whose dump the canonical file
                          \* holds (the empty one when it holds no document)
    deleted,              \* history: the sessions delete_session has removed
                          \* from the mapping and that were not created again
    event                 \* history: what the last step did

vars == <<sessions, current_session_id, client, api_key_configured, files,
          canonical, legacy, pc, job, jobs, faults, migrated, saved, deleted,
          event>>

\* the outcomes a write may have while failures are left in the bound
IoChoices == IF faults < MaxFaults THEN WriteOutcomes ELSE {"ok"}

disk == <<files, canonical, legacy>>

\* no job is running
NoJob == [num_variations |-> 0]

\* the state at the start of the script's first run, but for faults
InitState ==
    /\ sessions = EmptyDict
    /\ current_session_id = None
    /\ client = None
    /\ api_key_configured = FALSE
    /\ files = {}
    /\ canonical = Absent
    /\ legacy \in {Absent, Corrupt, LegacyDoc}
    /\ pc = "idle"
    /\ job = NoJob
    /\ jobs = 0
    /\ migrated = FALSE
    /\ saved = EmptyDict
    /\ deleted = {}
    /\ event = [op |-> "init"]

Init == InitState /\ faults = 0

\* the same start with no file system failure left to happen
InitReliable == InitState /\ faults = MaxFaults

\* ------------------------------------------------------ the script's runs

\* main, lines 303-306: a script run starts; the mapping is loaded when empty
MainStart ==
    /\ pc = "idle"
    /\ pc' = "run"
    /\ IF sessions = EmptyDict
       THEN \E io \in IoChoices :
              LET r == load_sessions_from_file(sessions, canonical, legacy, io) IN
              /\ sessions' = r.sessions
              /\ canonical' = r.canonical
              /\ faults' = IF r.stage = "write" THEN faults + 1 ELSE faults
              /\ migrated' = (migrated \/ (r.source = "legacy" /\ r.stage = "none"))
              /\ saved' = IF IsDoc(r.canonical)
                          THEN (IF r.source = "legacy" THEN r.sessions ELSE saved)
                          ELSE EmptyDict
              /\ event' = [op |-> "load", source |-> r.source, stage |-> r.stage,
                           warned |-> r.warned, raised |-> r.raised,
                           after_migration |-> migrated,
                           after_restart |-> event.op = "restart"]
       ELSE /\ event' = [op |-> "noload"]
            /\ UNCHANGED <<sessions, canonical, faults, migrated, saved>>
    /\ UNCHANGED <<current_session_id, client, api_key_configured, files, legacy,
                   job, jobs, deleted>>

\* a run in which no widget fired
Render ==
    /\ pc = "run"
    /\ pc' = "idle"
    /\ event' = [op |-> "ui"]
    /\ UNCHANGED <<sessions, current_session_id, client, api_key_configured, disk,
                   job, jobs, faults, migrated, saved, deleted>>

\* main, lines 324-331: an API key was entered; genai.Client may raise
EnterApiKey ==
    /\ pc = "run"
    /\ pc' = "idle"
    /\ \E ok \in BOOLEAN :
         /\ client' = IF ok THEN "client" ELSE client
         /\ api_key_configured' = ok
    /\ event' = [op |-> "ui"]
    /\ UNCHANGED <<sessions, current_session_id, disk, job, jobs, faults, migrated,
                   saved, deleted>>

\* the save at the end of a handler: save_sessions_to_file() on the mapping
\* the handler leaves; spent: the failures the handler met before it
SaveAfter(mapping, io, spent) ==
    LET w == save_sessions_to_file(mapping, canonical, io) IN
    /\ faults + spent + (IF w.error THEN 1 ELSE 0) <= MaxFaults
    /\ faults' = faults + spent + (IF w.error THEN 1 ELSE 0)
    /\ canonical' = w.canonical
    /\ saved' = IF IsDoc(w.canonical)
                THEN (IF w.error THEN saved ELSE mapping) ELSE EmptyDict

\* main, lines 340-344: "New Session"
NewSessionClick ==
    /\ pc = "run"
    /\ pc' = "idle"
    /\ \E session_id \in SessionIds, io \in WriteOutcomes :
         /\ sessions' = create_new_session(sessions, session_id)
         /\ current_session_id' = session_id
         /\ SaveAfter(sessions', io, 0)
         /\ deleted' = deleted \ {session_id}
    /\ event' = [op |-> "new"]
    /\ UNCHANGED <<client, api_key_configured, files, legacy, job, jobs, migrated>>

\* main, lines 347-349: "Save Sessions"
SaveClick ==
    /\ pc = "run"
    /\ pc' = "idle"
    /\ \E io \in WriteOutcomes : SaveAfter(sessions, io, 0)
    /\ event' = [op |-> "ui"]
    /\ UNCHANGED <<sessions, current_session_id, client, api_key_configured, files,
                   legacy, job, jobs, migrated, deleted>>

\* main, lines 357-363: "Open" of a listed session
OpenClick ==
    /\ pc = "run"
    /\ pc' = "idle"
    /\ \E session_id \in DOMAIN sessions : current_session_id' = session_id
    /\ event' = [op |-> "ui"]
    /\ UNCHANGED <<sessions, client, api_key_configured, disk, job, jobs, faults,
                   migrated, saved, deleted>>

\* the artifact files of a session that exist
SessionFiles(session, fs) ==
    LET videos == SessionVideos(session.generations, 1) IN
    {videos[k].local_path : k \in 1..Len(videos)} \cap fs

\* the statuses of a session's videos
SessionStatuses(session) ==
    LET videos == SessionVideos(session.generations, 1) IN
    {videos[k].status : k \in 1..Len(videos)}

\* main, lines 369-372: the delete button of a listed session; the save is
\* not reached when delete_session raises.  os.remove raises for no file or
\* for one of the session's files
DeleteClick ==
    /\ pc = "run"
    /\ pc' = "idle"
    /\ \E session_id \in DOMAIN sessions, io \in WriteOutcomes :
       \E failing \in {{}} \cup {{f} : f \in SessionFiles(sessions[session_id], files)} :
         LET d == delete_session(sessions, current_session_id, files, session_id,
                                 failing)
             spent == IF d.remove_failed > 0 THEN 1 ELSE 0
         IN
         /\ (failing # {}) => (spent = 1)
         /\ sessions' = d.sessions
         /\ current_session_id' = d.current
         /\ files' = d.files
         /\ deleted' = IF d.raised = "none" THEN deleted \cup {session_id} ELSE deleted
         /\ IF d.raised = "none"
            THEN SaveAfter(sessions', io, spent)
            ELSE /\ io = "ok"
                 /\ faults + spent <= MaxFaults
                 /\ faults' = faults + spent
                 /\ UNCHANGED <<canonical, saved>>
         /\ event' = [op |-> "delete", session_id |-> session_id,
                      raised |-> d.raised, remove_failed |-> d.remove_failed,
                      existing |-> SessionFiles(sessions[session_id], files),
                      removed |-> files \ d.files,
                      statuses |-> SessionStatuses(sessions[session_id])]
    /\ UNCHANGED <<client, api_key_configured, legacy, job, jobs, migrated>>

\* delete_session (lines 66-81) called with an identifier main never passes
\* to it: one that is not a key of the mapping, such as the identifier of a
\* session deleted before.  No os.remove is reached.
DeleteCall ==
    /\ pc = "run"
    /\ pc' = "idle"
    /\ \E session_id \in SessionIds \ DOMAIN sessions :
         LET d == delete_session(sessions, current_session_id, files, session_id, {})
         IN
         /\ sessions' = d.sessions
         /\ current_session_id' = d.current
         /\ files' = d.files
         /\ event' = [op |-> "delete_call", session_id |-> session_id,
                      again |-> session_id \in deleted, raised |-> d.raised]
    /\ UNCHANGED <<client, api_key_configured, canonical, legacy, job, jobs, faults,
                   migrated, saved, deleted>>

\* a new script session or a restarted process: st.session_state starts
\* over, the files stay
Restart ==
    /\ pc' = "idle"
    /\ sessions' = EmptyDict
    /\ current_session_id' = None
    /\ client' = None
    /\ api_key_configured' = FALSE
    /\ job' = NoJob
    /\ event' = [op |-> "restart"]
    /\ UNCHANGED <<disk, jobs, faults, migrated, saved, deleted>>

\* ---------------------------------------------------- the generation job

\* the remote operation never reports done
Never == 0 - 1

\* what the remote service does while it is polled: the number of the
\* client.operations.get call that first returns done (or Never), and of the
\* call that raises (or Never)
PollBehaviours ==
    [done_at : {1, max_polls, max_polls + 1, Never}, raise_at : {Never, 2}]

\* PollLoop with the budget test off by one: poll_count <= max_polls
RECURSIVE PollLoop_OneMore(_, _, _, _)
PollLoop_OneMore(done, poll_count, get_calls, remote) ==
    IF ~done /\ poll_count <= max_polls
    THEN IF remote.raise_at = get_calls + 1
         THEN [done |-> done, poll_count |-> poll_count,
               get_calls |-> get_calls + 1, raised |-> TRUE]
         ELSE PollLoop_OneMore(remote.done_at # Never /\ remote.done_at <= get_calls + 1,
                               poll_count + 1, get_calls + 1, remote)
    ELSE [done |-> done, poll_count |-> poll_count, get_calls |-> get_calls,
          raised |-> FALSE]

\* the while loop of lines 191-204, run to its end against a behaviour of the
\* remote service: operation.done, poll_count, the calls of
\* client.operations.get made, and whether one of them raised
RECURSIVE PollLoop(_, _, _, _)
PollLoop(done, poll_count, get_calls, remote) ==
    IF ~done /\ poll_count < max_polls
    THEN IF remote.raise_at = get_calls + 1
         THEN [done |-> done, poll_count |-> poll_count,
               get_calls |-> get_calls + 1, raised |-> TRUE]
         ELSE PollLoop(remote.done_at # Never /\ remote.done_at <= get_calls + 1,
                       poll_count + 1, get_calls + 1, remote)
    ELSE [done |-> done, poll_count |-> poll_count, get_calls |-> get_calls,
          raised |-> FALSE]

\* video_data of lines 222-230
CompletedVideo(video_id, video_path) ==
    [id |-> video_id, prompt |-> Prompt, aspect_ratio |-> ASPECT_RATIOS[AspectLabel],
     model_version |-> MODEL_VERSIONS[ModelLabel], created_at |-> Now,
     local_path |-> video_path, status |-> "completed"]

\* video_data of lines 243-251
TimeoutVideo(video_id) ==
    [id |-> video_id, prompt |-> Prompt, aspect_ratio |-> ASPECT_RATIOS[AspectLabel],
     model_version |-> MODEL_VERSIONS[ModelLabel], created_at |-> Now,
     local_path |-> None, status |-> "timeout"]

\* generation of lines 480-490
Generation(num_variations, videos) ==
    [timestamp |-> Now, prompt |-> Prompt,
     settings |-> [aspect_ratio |-> AspectLabel, model_version |-> ModelLabel,
                   num_variations |-> num_variations, image_gcs_uri |-> ""],
     videos |-> videos]

\* the locals of generate_videos_with_veo3 at its start.  owners, submitted,
\* get_calls, failed_at and failed_in are history: the variation each record
\* was made for, the variations submitted, the client.operations.get calls of
\* the current variation, and where the except clause was entered from
NewJob(num_variations) ==
    [num_variations |-> num_variations, i |-> 0, videos |-> << >>,
     owners |-> << >>, submitted |-> {}, video_id |-> None,
     done |-> FALSE, poll_count |-> 0, get_calls |-> 0,
     failed_at |-> Never, failed_in |-> "none"]

\* a client test that never finds the client missing
ClientCheck_Never(c) == FALSE

\* line 154: not st.session_state.client
ClientCheck(c) == c = None

\* main, lines 459-476, and generate_videos_with_veo3, lines 152-156: the
\* form is submitted with a prompt
GenerateClick ==
    /\ pc = "run"
    /\ current_session_id # None
    /\ current_session_id \in DOMAIN sessions
    /\ jobs < MaxJobs
    /\ \E num_variations \in NumVariationOptions :
         IF ~api_key_configured
         THEN /\ pc' = "idle"
              /\ event' = [op |-> "ui"]
              /\ UNCHANGED <<job, jobs>>
         ELSE IF ClientCheck(client)
         THEN /\ pc' = "return"
              /\ job' = [NewJob(num_variations) EXCEPT !.failed_in = "client"]
              /\ jobs' = jobs + 1
              /\ event' = [op |-> "no_client"]
         ELSE /\ pc' = "submit"
              /\ job' = NewJob(num_variations)
              /\ jobs' = jobs + 1
              /\ event' = [op |-> "job_start"]
    /\ UNCHANGED <<sessions, current_session_id, client, api_key_configured, disk,
                   faults, migrated, saved, deleted>>

\* generate_videos_with_veo3 (lines 152-156) called in the state main never
\* calls it in: no client is configured.  main calls it only after its test
\* of api_key_configured, which is set together with the client.
GenerateCall ==
    /\ pc = "run"
    /\ current_session_id # None
    /\ current_session_id \in DOMAIN sessions
    /\ jobs < MaxJobs
    /\ client = None
    /\ \E num_variations \in NumVariationOptions :
         IF ClientCheck(client)
         THEN /\ pc' = "return"
              /\ job' = [NewJob(num_variations) EXCEPT !.failed_in = "client"]
              /\ event' = [op |-> "no_client"]
         ELSE /\ pc' = "submit"
              /\ job' = NewJob(num_variations)
              /\ event' = [op |-> "job_start"]
    /\ jobs' = jobs + 1
    /\ UNCHANGED <<sessions, current_session_id, client, api_key_configured, disk,
                   faults, migrated, saved, deleted>>

\* the except clause of lines 258-263, entered from variation job.i
JobExcept(j, where) ==
    /\ pc' = "return"
    /\ job' = [j EXCEPT !.failed_at = j.i, !.failed_in = where]
    /\ event' = [op |-> "error", variation |-> j.i, where |-> where]

\* JobSubmit appending a record for the variation as soon as it is submitted
JobSubmit_RecordsPending ==
    /\ pc = "submit"
    /\ \E outcome \in {"raises", "pending", "done"} :
         LET j == [job EXCEPT !.submitted = @ \cup {job.i},
                              !.video_id = NewVideoId(jobs, job.i),
                              !.get_calls = 0]
         IN IF outcome = "raises"
            THEN JobExcept(j, "submit")
            ELSE /\ pc' = "poll"
                 /\ job' = [j EXCEPT !.done = (outcome = "done"), !.poll_count = 0,
                                     !.videos = Append(@,
                                         [TimeoutVideo(j.video_id) EXCEPT
                                             !.status = "pending"]),
                                     !.owners = Append(@, job.i)]
                 /\ event' = [op |-> "submitted", variation |-> job.i]
    /\ UNCHANGED <<sessions, current_session_id, client, api_key_configured, disk,
                   jobs, faults, migrated, saved, deleted>>

\* lines 159-185: the loop's next variation; client.models.generate_videos
\* raises, or returns an operation that is done already or not yet
JobSubmit ==
    /\ pc = "submit"
    /\ \E outcome \in {"raises", "pending", "done"} :
         LET j == [job EXCEPT !.submitted = @ \cup {job.i},
                              !.video_id = NewVideoId(jobs, job.i),
                              !.get_calls = 0]
         IN IF outcome = "raises"
            THEN JobExcept(j, "submit")
            ELSE /\ pc' = "poll"
                 /\ job' = [j EXCEPT !.done = (outcome = "done"), !.poll_count = 0]
                 /\ event' = [op |-> "submitted", variation |-> job.i]
    /\ UNCHANGED <<sessions, current_session_id, client, api_key_configured, disk,
                   jobs, faults, migrated, saved, deleted>>

\* lines 187-204: the polling loop
JobPoll ==
    /\ pc = "poll"
    /\ \E remote \in PollBehaviours :
         LET r == PollLoop(job.done, job.poll_count, job.get_calls, remote)
             j == [job EXCEPT !.done = r.done, !.poll_count = r.poll_count,
                              !.get_calls = r.get_calls]
         IN IF r.raised
            THEN JobExcept(j, "poll")
            ELSE /\ pc' = "finalize"
                 /\ job' = j
                 /\ event' = [op |-> "polled", variation |-> job.i]
    /\ UNCHANGED <<sessions, current_session_id, client, api_key_configured, disk,
                   jobs, faults, migrated, saved, deleted>>

\* after a variation's record is appended: the next variation, or the return
NextPc(i, num_variations) == IF i + 1 < num_variations THEN "submit" ELSE "return"

\* what a done operation carries and how its download and save go; a save
\* that raises may leave the file behind
DoneResults == {"ok", "no_result", "download_raises", "save_raises", "save_raises_partial"}

\* lines 206-256: the branch on operation.done
JobFinalize ==
    /\ pc = "finalize"
    /\ IF job.done
       THEN \E result \in DoneResults :
              LET video_path == VideoPath(job.video_id, Now) IN
              IF result = "ok"
              THEN /\ files' = files \cup {video_path}
                   /\ job' = [job EXCEPT
                                !.videos = Append(@, CompletedVideo(job.video_id, video_path)),
                                !.owners = Append(@, job.i),
                                !.i = @ + 1]
                   /\ pc' = NextPc(job.i, job.num_variations)
                   /\ event' = [op |-> "completed", variation |-> job.i]
              ELSE /\ files' = IF result = "save_raises_partial"
                               THEN files \cup {video_path} ELSE files
                   /\ JobExcept(job, result)
       ELSE /\ job' = [job EXCEPT
                         !.videos = Append(@, TimeoutVideo(job.video_id)),
                         !.owners = Append(@, job.i),
                         !.i = @ + 1]
            /\ pc' = NextPc(job.i, job.num_variations)
            /\ event' = [op |-> "timeout", variation |-> job.i,
                         get_calls |-> job.get_calls]
            /\ UNCHANGED files
    /\ UNCHANGED <<sessions, current_session_id, client, api_key_configured,
                   canonical, legacy, jobs, faults, migrated, saved, deleted>>

\* line 265 and main, lines 478-494: the job returns its videos; a non-empty
\* list is appended to the current session as a generation and saved
JobReturn ==
    /\ pc = "return"
    /\ pc' = "idle"
    /\ job' = NoJob
    /\ IF job.videos # << >>
       THEN /\ sessions' = [sessions EXCEPT ![current_session_id].generations =
                               Append(@, Generation(job.num_variations, job.videos))]
            /\ \E io \in WriteOutcomes : SaveAfter(sessions', io, 0)
       ELSE UNCHANGED <<sessions, canonical, saved, faults>>
    /\ event' = [op |-> "return", num_variations |-> job.num_variations,
                 videos |-> job.videos, owners |-> job.owners,
                 submitted |-> job.submitted, failed_at |-> job.failed_at,
                 failed_in |-> job.failed_in,
                 failed_get_calls |-> IF job.failed_at = Never THEN 0 ELSE job.get_calls]
    /\ UNCHANGED <<current_session_id, client, api_key_configured, files, legacy,
                   jobs, migrated, deleted>>

Next ==
    \/ MainStart
    \/ Render
    \/ EnterApiKey
    \/ NewSessionClick
    \/ SaveClick
    \/ OpenClick
    \/ DeleteClick
    \/ GenerateClick
    \/ JobSubmit
    \/ JobPoll
    \/ JobFinalize
    \/ JobReturn
    \/ Restart

Spec == Init /\ [][Next]_vars

\* the program on a file system that never fails
SpecReliable == InitReliable /\ [][Next]_vars

\* the script's runs, and the functions called by other callers than main
NextCalls ==
    \/ Next
    \/ DeleteCall
    \/ GenerateCall

SpecCalls == Init /\ [][NextCalls]_vars

\* ------------------------------------------------------------------ claims

\* C1: with a client configured, generate_videos_with_veo3 returns exactly
\* num_variations records, the record at position i made for variation i,
\* whatever the remote outcomes were.
C1_ReturnsExactlyN ==
    (event.op = "return" /\ event.failed_in # "client") =>
        /\ Len(event.videos) = event.num_variations
        /\ \A k \in 1..Len(event.owners) : event.owners[k] = k - 1

\* C2: when the remote operation never reports done, the polling loop has
\* called client.operations.get exactly max_polls (60) times when it ends;
\* the variation's record then has status timeout and local_path None, and
\* the job goes on to the next variation (or returns after the last one).
C2_TimeoutAfter60Polls ==
    /\ (pc = "finalize" /\ ~job.done) =>
          (job.get_calls = max_polls /\ job.poll_count = max_polls)
    /\ event.op = "timeout" =>
          /\ event.get_calls = max_polls
          /\ job.i = event.variation + 1
          /\ Len(job.videos) = job.i
          /\ job.videos[job.i].status = "timeout"
          /\ job.videos[job.i].local_path = None
          /\ job.owners[job.i] = event.variation
          /\ pc = (IF job.i < job.num_variations THEN "submit" ELSE "return")

\* C2's case: a variation timed out and the job is about to submit the next
C2_Witness == event.op = "timeout" /\ pc = "submit"

\* C3: when client.models.generate_videos raises for variation i, the
\* returned batch holds a record for variation i with status failed, and no
\* client.operations.get call was made for it.
C3_SubmitErrorYieldsFailedRecord ==
    (event.op = "return" /\ event.failed_in = "submit") =>
        /\ \E k \in 1..Len(event.videos) :
              event.owners[k] = event.failed_at /\ event.videos[k].status = "failed"
        /\ event.failed_get_calls = 0

\* C4: a failure in variation i does not abort the batch: every later
\* variation j < num_variations has been submitted when the job returns.
C4_FailureDoesNotAbort ==
    (event.op = "return" /\ event.failed_at # Never) =>
        \A j \in (event.failed_at + 1)..(event.num_variations - 1) :
            j \in event.submitted

\* C5: deleting a session whose videos are completed or timeout ones (and no
\* os.remove fails) removes exactly its artifact files that exist and removes
\* the session from the mapping.
C5_DeleteRemovesFilesAndSession ==
    (event.op = "delete" /\ event.remove_failed = 0
        /\ event.statuses \subseteq {"completed", "timeout"}) =>
        /\ event.removed = event.existing
        /\ event.session_id \notin DOMAIN sessions

\* C6: every video record of the session mapping has, when completed, a
\* local_path naming an artifact file that exists and, when timeout or
\* failed, no local_path.
C6_VideoInvariant ==
    \A sid \in DOMAIN sessions :
        LET videos == SessionVideos(sessions[sid].generations, 1) IN
        \A k \in 1..Len(videos) :
            /\ videos[k].status = "completed" => videos[k].local_path \in files
            /\ videos[k].status \in {"timeout", "failed"} =>
                  ("local_path" \notin DOMAIN videos[k] \/ videos[k].local_path = None)

\* C7: a save_sessions_to_file that completes followed by a
\* load_sessions_from_file gives back the saved mapping: the document in the
\* canonical file loads to the mapping it was written from (all persisted
\* fields, generations and videos in order), and a load that read it leaves
\* that mapping in memory.
C7_SaveLoadRoundTrip ==
    /\ IsDoc(canonical) => JsonLoad(canonical) = saved
    /\ (event.op = "load" /\ event.source = "canonical" /\ event.stage = "none") =>
          sessions = saved

\* C7's case: a load has read back a session whose generation holds a
\* completed video (a path) and a timeout video (None)
C7_Witness ==
    /\ event.op = "load" /\ event.source = "canonical" /\ event.stage = "none"
    /\ \E sid \in DOMAIN sessions :
          /\ Len(sessions[sid].generations) > 0
          /\ {"completed", "timeout"} \subseteq SessionStatuses(sessions[sid])

\* C8: save_sessions_to_file is atomic for the canonical file: whenever the
\* file changes, it holds a complete document afterwards.
C8_CanonicalNeverPartial == [][canonical' # canonical => IsDoc(canonical')]_vars

\* C9: a load with the canonical file absent: when the legacy file is read
\* and the rewrite completes, the legacy content is the in-memory mapping and
\* the canonical file holds an equal document; a load after a migration reads
\* the canonical file, not the legacy file; with both files absent the
\* mapping is empty after the load.
C9_LegacyMigration ==
    event.op = "load" =>
        /\ (event.source = "legacy" /\ event.stage = "none") =>
              /\ sessions = JsonLoad(legacy)
              /\ canonical = legacy
        /\ event.after_migration => event.source = "canonical"
        /\ event.source = "nofile" =>
              (sessions = EmptyDict /\ canonical = Absent /\ legacy = Absent)
        /\ event.source = "legacy" => ~event.after_migration

\* C9's case: a load that follows a completed migration
C9_Witness == event.op = "load" /\ event.after_migration /\ sessions = JsonLoad(legacy)

\* C10 as stated: whenever load_sessions_from_file fails, at any step, the
\* error is reported, nothing is raised, and the mapping is empty afterwards.
C10_LoadFailureLeavesEmpty ==
    (event.op = "load" /\ event.stage # "none") =>
        (event.warned /\ ~event.raised /\ sessions = EmptyDict)

\* C10 amended: a failing load is reported and not raised; when the file read
\* is malformed the mapping is empty afterwards, and when the legacy file was
\* read and the write of the canonical file failed the mapping holds the
\* legacy content.
C10_LoadFailureReported ==
    (event.op = "load" /\ event.stage # "none") =>
        /\ event.warned /\ ~event.raised
        /\ event.stage = "read" => sessions = EmptyDict
        /\ event.stage = "write" => sessions = JsonLoad(legacy)

\* C10's case: a load that found the canonical file malformed
C10_Witness ==
    event.op = "load" /\ event.stage = "read" /\ event.source = "canonical"

\* C11: delete_session with an identifier that is not a key of the mapping
\* (the second of two deletes of the same session included) raises nothing
\* and leaves the mapping, current_session_id and every artifact file as
\* they were.
C11_DeleteUnknownIsNoOp ==
    [][(event'.op = "delete_call" /\ event'.session_id \notin DOMAIN sessions) =>
          /\ event'.raised = "none"
          /\ sessions' = sessions
          /\ current_session_id' = current_session_id
          /\ files' = files]_vars

\* C11's case: a second delete of a deleted session, with sessions, an
\* active session and artifact files there to be left alone
C11_Witness ==
    /\ event.op = "delete_call" /\ event.again
    /\ event.session_id \notin DOMAIN sessions
    /\ current_session_id # None
    /\ files # {}

\* C12: create_new_session allocates an identifier that is not a key of the
\* mapping: after the call the mapping has exactly one more session than
\* before, the new session has no generations, and every session that was
\* there is unchanged.  (The claim also excludes the identifiers of sessions
\* deleted earlier in the process; a key in use is the nearer case.)
C12_CreateAllocatesFreshId ==
    [][event'.op = "new" =>
          /\ current_session_id' \notin DOMAIN sessions
          /\ Cardinality(DOMAIN sessions') = Cardinality(DOMAIN sessions) + 1
          /\ sessions'[current_session_id'].generations = << >>
          /\ \A sid \in DOMAIN sessions : sessions'[sid] = sessions[sid]]_vars

\* C13: when no client is configured, generate_videos_with_veo3 reports the
\* error and returns an empty list with no variation submitted (so nothing
\* polled or downloaded): no step of the job is taken without a client, and
\* no artifact file changes between the call and its return.
C13_NoClientNoRemoteCall ==
    /\ [](/\ pc \in {"submit", "poll", "finalize"} => client # None
          /\ (pc = "return" /\ client = None) =>
                (event.op = "no_client" /\ job.videos = << >> /\ job.submitted = {})
          /\ (event.op = "return" /\ event.failed_in = "client") =>
                (event.videos = << >> /\ event.submitted = {}))
    /\ [][((pc' = "return" /\ client' = None) \/ (pc = "return" /\ client = None)) =>
            files' = files]_vars

\* C13's case: the job returned from its client test
C13_Witness == event.op = "return" /\ event.failed_in = "client" /\ client = None

\* C14: when a variation's operation reports done but carries an error or
\* no result, or the download or the save of its artifact fails, the
\* returned batch holds a record for that variation with status failed and
\* no local_path; the variation is neither recorded as completed nor left
\* out.
C14_DoneFailureYieldsFailedRecord ==
    (event.op = "return"
        /\ event.failed_in \in {"no_result", "download_raises", "save_raises",
                                "save_raises_partial"}) =>
        \E k \in 1..Len(event.videos) :
            /\ event.owners[k] = event.failed_at
            /\ event.videos[k].status = "failed"
            /\ event.videos[k].local_path = None

\* C15: the variations of a job are processed one after the other: while
\* variation i is submitted, polled or finalized, the variations submitted
\* are exactly 0..i and the records are those of 0..i-1, in order, so the
\* only operation outstanding is that of variation i; variation i+1 is
\* submitted only when the records of 0..i are appended; and every record
\* is that of a variation in a terminal state.
C15_Sequential ==
    pc \in {"submit", "poll", "finalize", "return"} =>
        /\ Len(job.videos) = Len(job.owners)
        /\ \A k \in 1..Len(job.owners) : job.owners[k] = k - 1
        /\ \A k \in 1..Len(job.videos) :
              job.videos[k].status \in {"completed", "timeout", "failed"}
        /\ Cardinality(job.submitted \ {job.owners[k] : k \in 1..Len(job.owners)}) <= 1
        /\ pc = "submit" =>
              (job.submitted = 0..(job.i - 1) /\ Len(job.videos) = job.i)
        /\ pc \in {"poll", "finalize"} =>
              (job.submitted = 0..job.i /\ Len(job.videos) = job.i)

\* C15's case: the second variation is outstanding and the first has its
\* record
C15_Witness == pc = "poll" /\ job.i = 1 /\ Len(job.videos) = 1

\* C16: when an os.remove of delete_session fails, the delete still removes
\* every other artifact file of the session that exists, removes the session
\* from the mapping, and raises nothing to its caller.
C16_DeleteBestEffort ==
    (event.op = "delete" /\ event.remove_failed > 0) =>
        /\ event.raised = "none"
        /\ event.session_id \notin DOMAIN sessions
        /\ event.removed \subseteq event.existing
        /\ Cardinality(event.existing \ event.removed) = event.remove_failed

\* C17: after the process has stopped, at whatever point, and started again,
\* the mapping its load gives has an existing artifact file for every
\* completed video and holds no session that was deleted.
C17_CrashConsistent ==
    (event.op = "load" /\ event.after_restart /\ event.stage = "none") =>
        /\ \A sid \in DOMAIN sessions :
              LET videos == SessionVideos(sessions[sid].generations, 1) IN
              \A k \in 1..Len(videos) :
                  videos[k].status = "completed" => videos[k].local_path \in files
        /\ DOMAIN sessions \cap deleted = {}

\* C18: when a job started from the form has returned, every variation of it
\* that reached a terminal state (its record was appended, or it failed) has
\* a record in the last generation of the session that was active, and the
\* saved file holds that generation.
C18_NoTerminalStateDropped ==
    (event.op = "return" /\ event.failed_in # "client") =>
        LET terminal == {event.owners[k] : k \in 1..Len(event.owners)} \cup
                        (IF event.failed_at = Never THEN {} ELSE {event.failed_at})
            gens == sessions[current_session_id].generations
        IN terminal # {} =>
             /\ Len(gens) > 0
             /\ \A v \in terminal :
                   \E k \in 1..Len(gens[Len(gens)].videos) :
                       gens[Len(gens)].videos[k].id = NewVideoId(jobs, v)
             /\ IsDoc(canonical)
             /\ current_session_id \in DOMAIN JsonLoad(canonical)
             /\ JsonLoad(canonical)[current_session_id].generations = gens

\* C19: current_session_id is always None or a key of the mapping, so that
\* main's lookup of the current session succeeds; a delete of the active
\* session sets current_session_id to None, and a delete of another session
\* leaves it as it was.
C19_CurrentSessionValid ==
    /\ [](current_session_id = None \/ current_session_id \in DOMAIN sessions)
    /\ [][event'.op = "delete" =>
            IF current_session_id = event'.session_id
            THEN current_session_id' = None
            ELSE current_session_id' = current_session_id]_vars

====
